---- MODULE Spec2Model ----
(***************************************************************************)
(* Model of the bouncing-ball WebRTC pair: server/server.py (the ball      *)
(* simulator, the frame pacer, the offerer and its message handler) and    *)
(* client/client.py (the answerer, the detection worker and the            *)
(* coordinate-polling loop).                                               *)
(*                                                                         *)
(* Wall-clock time is counted in ticks of the video clock (1/90000 s), so  *)
(* that  _start + _timestamp / VIDEO_CLOCK_RATE - time.time()  of          *)
(* next_timestamp is  start + timestamp - now  in ticks.                   *)
(***************************************************************************)
EXTENDS Integers, Sequences, FiniteSets, TLC

VARIABLES
    \* ---- server: BouncingBallTrack --------------------------------------
    position_x, position_y,   \* ball centre
    speed_x, speed_y,         \* signed unit step per axis
    ticks,                    \* number of get_next_image calls so far
    has_timestamp,            \* hasattr(self, "_timestamp")
    timestamp,                \* self._timestamp
    start,                    \* self._start
    now,                      \* time.time()
    wait,                     \* the argument of the last asyncio.sleep call
    slept,                    \* the time that sleep call suspended the caller
    calls,                    \* number of next_timestamp calls so far
    pts,                      \* the pts of the frames recv has returned
    returns,                  \* per next_timestamp call: when called, when returned
    \* ---- either endpoint: __main__, run_offer / run_answer, consume_signaling
    role,                     \* "server" (offerer) or "client" (answerer)
    mainPc,                   \* "run", "closing_pc", "closing_sig", "exited"
    interrupted,              \* KeyboardInterrupt was raised in the try block
    negPc,                    \* "connect", "receive", "ended"
    handlers,                 \* the callbacks registered so far
    received,                 \* the objects signaling.receive() has returned
    remoteApplied,            \* number of setRemoteDescription calls
    localApplied,             \* number of setLocalDescription calls
    candidatesApplied,        \* number of addIceCandidate calls
    descsSent,                \* the types of the descriptions passed to signaling.send
    violations,               \* number of ProtocolViolation reports
    events,                   \* the calls the negotiation coroutine has made, in order
    channel,                  \* "none" (no handle) or the handle's readyState
    pcClosed,                 \* peer_connection.close() has completed
    sigClosed,                \* signaling.close() has completed
    \* ---- client: VideoReceiveTrack, ImageParser, send_coordinates_to_server
    videoTrack,               \* on_track has wrapped the inbound video track
    framesReceived,           \* number of frames VideoReceiveTrack.recv returned
    framesSeen,               \* the images of those frames, in the order received
    image_queue,              \* Client.image_queue
    coordinate_queue,         \* Client.coordinate_queue
    current_x, current_y,     \* ImageParser.current_x / current_y
    workerPc,                 \* the ImageParser process: "running" or "stopped"
    pollPc,                   \* the polling task: "running" or "failed"
    sendCalls,                \* number of channel.send calls
    outbox,                   \* the messages channel.send accepted
    lastSend,                 \* the queue and the coordinate at the last send
    lastPoll,                 \* what the last polling iteration saw and did
    \* ---- server: on_message / compute_error
    msgsHandled,              \* number of data-channel messages delivered to on_message
    msgOutcome,               \* what on_message did with the last one
    distance2,                \* the square of the last computed distance
    lastReport                \* the client_coordinate of the last compute_error call

ballVars  == <<position_x, position_y, speed_x, speed_y, ticks>>
pacerVars == <<has_timestamp, timestamp, start, now, wait, slept, calls, pts,
               returns>>
mainVars  == <<role, mainPc, interrupted, pcClosed, sigClosed>>
negVars   == <<negPc, handlers, received, remoteApplied, localApplied,
               candidatesApplied, descsSent, violations, events>>
frameVars == <<videoTrack, framesReceived, framesSeen, image_queue>>
workVars  == <<coordinate_queue, current_x, current_y, workerPc>>
pollVars  == <<pollPc, sendCalls, outbox, lastSend, lastPoll>>
msgVars   == <<msgsHandled, msgOutcome, distance2, lastReport>>
clientVars == <<frameVars, workVars, pollVars>>
vars      == <<ballVars, pacerVars, mainVars, negVars, channel, clientVars, msgVars>>
endpointVars == <<mainVars, negVars, channel, clientVars, msgVars>>

----------------------------------------------------------------------------
\* Program constants (server.py).
SCREEN_HEIGHT    == 640
SCREEN_WIDTH     == 480
VIDEO_CLOCK_RATE == 90000
VIDEO_FPS        == 30
BALL_RADIUS      == 20

\* screen_size = (SCREEN_HEIGHT, SCREEN_WIDTH): index 0 bounds x, index 1 bounds y.
screen_size == <<SCREEN_HEIGHT, SCREEN_WIDTH>>

\* Bounds of the model.
MaxTicks       == 4    \* simulator ticks explored from each starting state
MaxStartOffset == 1    \* starting positions lie this close to a wall (or at the centre)
MaxFrames      == 6    \* frames produced by recv
MaxDelaySteps  == 3    \* scheduling delay between two calls, in half frame periods
MaxSignals     == 3    \* objects received from the signaling channel
MaxImages      == 2    \* frames received by the client
MaxCoord       == 2    \* distinct ball centres the received frames show
MaxMessages    == 2    \* data-channel messages delivered to the server
MaxMediaFrames == 2    \* frames the media session asks of the track while negotiating
MaxDigits      == 3    \* reported centres 10^k - 1 and 10^k for k up to this
MaxRunTicks    == 1000 \* simulator ticks followed from the program's own start

----------------------------------------------------------------------------
\* BouncingBallTrack.update_delta_with_bound: the speeds after the boundary
\* tests, far boundary first, then near boundary, independently per axis.
\* (variant: the far-boundary test written with > instead of >=)
Flipped_speed_x_strict(px, sx) ==
    IF px + BALL_RADIUS > screen_size[1] THEN sx * (-1)
    ELSE IF px - BALL_RADIUS <= 0 THEN sx * (-1)
    ELSE sx

Flipped_speed_x(px, sx) ==
    IF px + BALL_RADIUS >= screen_size[1] THEN sx * (-1)
    ELSE IF px - BALL_RADIUS <= 0 THEN sx * (-1)
    ELSE sx

\* (variant: the near-boundary test left out)
Flipped_speed_y_far_only(py, sy) ==
    IF py + BALL_RADIUS >= screen_size[2] THEN sy * (-1)
    ELSE sy

Flipped_speed_y(py, sy) ==
    IF py + BALL_RADIUS >= screen_size[2] THEN sy * (-1)
    ELSE IF py - BALL_RADIUS <= 0 THEN sy * (-1)
    ELSE sy

update_delta_with_bound ==
    /\ speed_x' = Flipped_speed_x(position_x', speed_x)
    /\ speed_y' = Flipped_speed_y(position_y', speed_y)

\* BouncingBallTrack.get_next_image: move, (draw), then reflect.
get_next_image ==
    /\ position_x' = position_x + speed_x
    /\ position_y' = position_y + speed_y
    /\ update_delta_with_bound
    /\ ticks' = ticks + 1

\* BouncingBallTrack.__init__
InitBall ==
    /\ position_x = screen_size[1] \div 2
    /\ position_y = screen_size[2] \div 2
    /\ speed_x = 1
    /\ speed_y = 1
    /\ ticks = 0

\* A track object before its first next_timestamp call: no _timestamp yet.
InitPacer ==
    /\ has_timestamp = FALSE
    /\ timestamp = 0
    /\ start = 0
    /\ now = 0
    /\ wait = 0
    /\ slept = 0
    /\ calls = 0
    /\ pts = <<>>
    /\ returns = <<>>

----------------------------------------------------------------------------
\* (variant: the period truncated to an integer before it is scaled)
TimestampIncrement_truncated == (1 \div VIDEO_FPS) * VIDEO_CLOCK_RATE

\* int(VIDEO_PTIME * VIDEO_CLOCK_RATE) with VIDEO_PTIME = 1 / 30.
TimestampIncrement == VIDEO_CLOCK_RATE \div VIDEO_FPS

\* The scheduling delays the model lets pass between two calls.
Delays == { k * (TimestampIncrement \div 2) : k \in 0..MaxDelaySteps }

\* (variant: every call waits one frame period from the moment it is made)
WaitFor_one_period(st, ts, t) == TimestampIncrement

\* (variant: the difference taken the wrong way round)
WaitFor_reversed(st, ts, t) == t - (st + ts)

\* wait = self._start + (self._timestamp / VIDEO_CLOCK_RATE) - time.time()
WaitFor(st, ts, t) == st + ts - t

\* asyncio.sleep(delay): a delay <= 0 yields once and returns at once.
SleepTime(delay) == IF delay <= 0 THEN 0 ELSE delay

\* BouncingBallTrack.next_timestamp, called d ticks after the previous return.
next_timestamp(d) ==
    /\ calls' = calls + 1
    /\ IF has_timestamp
         THEN /\ timestamp' = timestamp + TimestampIncrement
              /\ wait' = WaitFor(start, timestamp', now + d)
              /\ slept' = SleepTime(wait')
              /\ now' = now + d + slept'
              /\ UNCHANGED <<start, has_timestamp>>
         ELSE /\ start' = now + d
              /\ timestamp' = 0
              /\ has_timestamp' = TRUE
              /\ now' = now + d
              /\ UNCHANGED <<wait, slept>>
    /\ returns' = Append(returns, [called |-> now + d, returned |-> now'])

\* BouncingBallTrack.recv: one simulator tick, then the pacer, then the frame
\* is returned with the pacer's timestamp.
recv ==
    /\ calls < MaxFrames
    /\ get_next_image
    /\ \E d \in Delays : next_timestamp(d)
    /\ pts' = Append(pts, timestamp')
    /\ UNCHANGED endpointVars

\* The simulator stepped on its own (test_BouncingBallTrack_get_next_image).
SimTick ==
    /\ ticks < MaxTicks
    /\ get_next_image
    /\ UNCHANGED <<pacerVars, endpointVars>>

----------------------------------------------------------------------------
\* Frames as the client sees them: what matters of an image is the centre of the
\* ball it shows, if it shows one.
UINT16  == 65536
NoCoord == [x |-> 0, y |-> 0]
Coords  == { [x |-> k, y |-> MaxCoord + 1 - k] : k \in 1..MaxCoord }
Blank   == [ball |-> FALSE, x |-> 0, y |-> 0]
Images  == {Blank} \cup { [ball |-> TRUE, x |-> c.x, y |-> c.y] : c \in Coords }

\* (variant: an image without a circle yields the centre (0, 0) instead of None)
detect_center_never_none(image) ==
    [found |-> TRUE, x |-> image.x % UINT16, y |-> image.y % UINT16]

\* ImageParser.detect_center: the first detected circle's centre, rounded and
\* converted with np.uint16, or None.
detect_center(image) ==
    IF image.ball
      THEN [found |-> TRUE, x |-> image.x % UINT16, y |-> image.y % UINT16]
      ELSE [found |-> FALSE, x |-> 0, y |-> 0]

\* str(n) of a non-negative int: its decimal digits, most significant first.
RECURSIVE Digits(_)
Digits(n) == IF n < 10 THEN <<n>> ELSE Append(Digits(n \div 10), n % 10)

\* The int that ast.literal_eval makes of a run of decimal digits.
RECURSIVE IntOf(_)
IntOf(ds) ==
    IF ds = <<>> THEN 0
    ELSE 10 * IntOf(SubSeq(ds, 1, Len(ds) - 1)) + ds[Len(ds)]

\* str(coordinates) of the dict {"x": ..., "y": ...}, as its token sequence.
Tok(k)    == [kind |-> k, val |-> <<>>]
IntTok(n) == [kind |-> "int", val |-> Digits(n)]

\* (variant: the value of "x" is written under both keys)
Str_x_under_both_keys(c) ==
    << Tok("{"), Tok("'x'"), Tok(":"), IntTok(c.x), Tok(","),
       Tok("'y'"), Tok(":"), IntTok(c.x), Tok("}") >>

Str(c) ==
    << Tok("{"), Tok("'x'"), Tok(":"), IntTok(c.x), Tok(","),
       Tok("'y'"), Tok(":"), IntTok(c.y), Tok("}") >>

\* The event loop runs inside the three run_until_complete calls of __main__.
LoopRunning == mainPc \in {"run", "closing_pc", "closing_sig"}

\* The state of an endpoint after construction, before the loop first runs.
InitEndpoint ==
    /\ mainPc = "run"
    /\ interrupted = FALSE
    /\ negPc = "connect"
    /\ handlers = {}
    /\ received = <<>>
    /\ remoteApplied = 0
    /\ localApplied = 0
    /\ candidatesApplied = 0
    /\ descsSent = <<>>
    /\ violations = 0
    /\ events = <<>>
    /\ channel = "none"
    /\ pcClosed = FALSE
    /\ sigClosed = FALSE
    /\ videoTrack = FALSE
    /\ framesReceived = 0
    /\ framesSeen = <<>>
    /\ image_queue = <<>>
    /\ coordinate_queue = <<>>
    /\ current_x = 0
    /\ current_y = 0
    /\ workerPc = "running"
    /\ pollPc = "running"
    /\ sendCalls = 0
    /\ outbox = <<>>
    /\ lastSend = [sent |-> FALSE, waiting |-> <<>>, coord |-> NoCoord]
    /\ lastPoll = [polled |-> FALSE, channel |-> "none", waiting |-> 0,
                   dequeued |-> 0, sends |-> 0]
    /\ msgsHandled = 0
    /\ msgOutcome = "none"
    /\ distance2 = 0
    /\ lastReport = NoCoord

\* A track object on its own: no endpoint activity.
InitIdle == role = "server" /\ InitEndpoint

\* A newly constructed track, with no endpoint activity around it.
InitTrack == InitBall /\ InitPacer /\ InitIdle

----------------------------------------------------------------------------
\* What signaling.receive() can return: a description of either type, a
\* candidate, BYE, or an object of no handled type.
SignalObjects == {"offer", "answer", "candidate", "bye", "other"}

\* (variant: the loop also leaves on an answer)
EndsLoop_on_answer(obj) == obj \in {"bye", "answer"}

\* elif obj is BYE: break
EndsLoop(obj) == obj = "bye"

\* A call of the negotiation coroutine and the descriptor or object it concerns.
Ev(call, arg) == [call |-> call, arg |-> arg]

\* (variant: every inbound description is answered)
ConsumeCalls_answers_every_description(obj) ==
    << Ev("receive", obj) >>
      \o (IF obj \in {"offer", "answer"}
            THEN << Ev("setRemoteDescription", obj), Ev("createAnswer", "answer"),
                    Ev("setLocalDescription", "answer"), Ev("send", "answer") >>
          ELSE IF obj = "candidate" THEN << Ev("addIceCandidate", obj) >>
          ELSE <<>>)

\* The calls of one iteration of consume_signaling on obj, in statement order.
ConsumeCalls(obj) ==
    << Ev("receive", obj) >>
      \o (IF obj \in {"offer", "answer"}
            THEN << Ev("setRemoteDescription", obj) >>
                   \o (IF obj = "offer"
                         THEN << Ev("createAnswer", "answer"),
                                 Ev("setLocalDescription", "answer"),
                                 Ev("send", "answer") >>
                         ELSE <<>>)
          ELSE IF obj = "candidate" THEN << Ev("addIceCandidate", obj) >>
          ELSE <<>>)

\* The calls of run_answer before it enters consume_signaling.
AnswerCalls ==
    << Ev("connect", "none"), Ev("on", "track"), Ev("on", "datachannel") >>

\* The calls of run_offer before it enters consume_signaling.
OfferCalls ==
    << Ev("connect", "none"), Ev("createDataChannel", "coordinates"),
       Ev("addTrack", "balltrack"), Ev("on", "message"),
       Ev("createOffer", "offer"), Ev("setLocalDescription", "offer"),
       Ev("send", "offer") >>

\* (variant: a candidate is held back until a remote description is set)
AppliesCandidate_after_remote(obj, remote) == obj = "candidate" /\ remote >= 1

\* elif isinstance(obj, RTCIceCandidate): await peer_connection.addIceCandidate(obj)
\* (remote, the number of remote descriptions applied so far, is not consulted)
AppliesCandidate(obj, remote) == obj = "candidate"

\* One iteration of the while loop of consume_signaling (the same code at both
\* endpoints) on the received object obj.  Returning from the loop completes
\* run_offer / run_answer, so the first run_until_complete of __main__ returns.
consume_signaling(obj) ==
    /\ LoopRunning /\ ~sigClosed
    /\ negPc = "receive"
    /\ Len(received) < MaxSignals
    /\ received' = Append(received, obj)
    /\ events' = events \o ConsumeCalls(obj)
    /\ remoteApplied' = IF obj \in {"offer", "answer"}
                          THEN remoteApplied + 1 ELSE remoteApplied
    /\ localApplied' = IF obj = "offer" THEN localApplied + 1 ELSE localApplied
    /\ descsSent' = IF obj = "offer" THEN Append(descsSent, "answer") ELSE descsSent
    /\ candidatesApplied' = IF AppliesCandidate(obj, remoteApplied)
                              THEN candidatesApplied + 1 ELSE candidatesApplied
    /\ videoTrack' = (videoTrack \/ (obj \in {"offer", "answer"} /\ "track" \in handlers))
    /\ negPc' = IF EndsLoop(obj) THEN "ended" ELSE "receive"
    /\ mainPc' = IF EndsLoop(obj) /\ mainPc = "run" THEN "closing_pc" ELSE mainPc
    /\ UNCHANGED <<role, interrupted, pcClosed, sigClosed, handlers, violations,
                   channel, framesReceived, framesSeen, image_queue, workVars,
                   pollVars, ballVars, pacerVars, msgVars>>

Client_consume_signaling == role = "client" /\ \E obj \in SignalObjects : consume_signaling(obj)

Server_consume_signaling == role = "server" /\ \E obj \in SignalObjects : consume_signaling(obj)

\* Client.run_answer up to its call of consume_signaling: connect, register
\* on_track and on_datachannel.
run_answer ==
    /\ role = "client" /\ LoopRunning /\ ~sigClosed
    /\ negPc = "connect"
    /\ handlers' = handlers \cup {"track", "datachannel"}
    /\ events' = events \o AnswerCalls
    /\ negPc' = "receive"
    /\ UNCHANGED <<mainVars, received, remoteApplied, localApplied, candidatesApplied,
                   descsSent, violations, channel, frameVars, workVars, pollVars,
                   ballVars, pacerVars, msgVars>>

\* Server.run_offer up to its call of consume_signaling: connect, create the
\* data channel, add the track, register on_message, create, apply and send
\* the offer.
run_offer ==
    /\ role = "server" /\ LoopRunning /\ ~sigClosed
    /\ negPc = "connect"
    /\ channel' = "connecting"
    /\ handlers' = handlers \cup {"message"}
    /\ localApplied' = localApplied + 1
    /\ descsSent' = Append(descsSent, "offer")
    /\ events' = events \o OfferCalls
    /\ negPc' = "receive"
    /\ UNCHANGED <<mainVars, received, remoteApplied, candidatesApplied, violations,
                   frameVars, workVars, pollVars, ballVars, pacerVars, msgVars>>

\* __main__: KeyboardInterrupt leaves the try block; the tasks stay pending.
Interrupt ==
    /\ mainPc = "run"
    /\ mainPc' = "closing_pc"
    /\ interrupted' = TRUE
    /\ UNCHANGED <<role, pcClosed, sigClosed, negVars, channel, frameVars, workVars,
                   pollVars, ballVars, pacerVars, msgVars>>

\* __main__, finally: loop.run_until_complete(peer_connection.close())
ClosePeerConnection ==
    /\ mainPc = "closing_pc"
    /\ pcClosed' = TRUE
    /\ channel' = IF channel = "none" THEN "none" ELSE "closed"
    /\ mainPc' = "closing_sig"
    /\ UNCHANGED <<role, interrupted, sigClosed, negVars, frameVars, workVars,
                   pollVars, ballVars, pacerVars, msgVars>>

\* __main__, finally: loop.run_until_complete(signaling.close()); the program
\* text ends here.
CloseSignaling ==
    /\ mainPc = "closing_sig"
    /\ sigClosed' = TRUE
    /\ mainPc' = "exited"
    /\ UNCHANGED <<role, interrupted, pcClosed, negVars, channel, frameVars,
                   workVars, pollVars, ballVars, pacerVars, msgVars>>

----------------------------------------------------------------------------
\* The session hands the client the data channel the server created
\* (on_datachannel): self.channel = channel.
on_datachannel ==
    /\ role = "client" /\ LoopRunning /\ ~pcClosed
    /\ "datachannel" \in handlers
    /\ remoteApplied >= 1 /\ localApplied >= 1
    /\ channel = "none"
    /\ channel' \in {"connecting", "open"}
    /\ UNCHANGED <<mainVars, negVars, frameVars, workVars, pollVars, ballVars,
                   pacerVars, msgVars>>

\* readyState, written by the session: connecting -> open -> closed.
ChannelOpens ==
    /\ LoopRunning /\ ~pcClosed
    /\ channel = "connecting"
    /\ remoteApplied >= 1 /\ localApplied >= 1
    /\ channel' = "open"
    /\ UNCHANGED <<mainVars, negVars, frameVars, workVars, pollVars, ballVars,
                   pacerVars, msgVars>>

ChannelCloses ==
    /\ LoopRunning
    /\ channel \in {"connecting", "open"}
    /\ channel' = "closed"
    /\ UNCHANGED <<mainVars, negVars, frameVars, workVars, pollVars, ballVars,
                   pacerVars, msgVars>>

\* VideoReceiveTrack.recv / process_image: the received image is put on the
\* image queue.
VideoReceiveTrack_recv ==
    /\ role = "client" /\ LoopRunning /\ ~pcClosed
    /\ videoTrack
    /\ framesReceived < MaxImages
    /\ \E image \in Images :
         /\ image_queue' = Append(image_queue, image)
         /\ framesSeen' = Append(framesSeen, image)
    /\ framesReceived' = framesReceived + 1
    /\ UNCHANGED <<mainVars, negVars, channel, videoTrack, workVars, pollVars,
                   ballVars, pacerVars, msgVars>>

\* ImageParser.run, one iteration: take the oldest image (blocking while the
\* queue is empty), detect, and put the coordinate if there is one.  The loop
\* is while True with no exit, in a process of its own.
ImageParser_run ==
    /\ role = "client"
    /\ workerPc = "running"
    /\ image_queue # <<>>
    /\ image_queue' = Tail(image_queue)
    /\ LET center == detect_center(Head(image_queue)) IN
         IF center.found
           THEN /\ current_x' = center.x
                /\ current_y' = center.y
                /\ coordinate_queue' =
                     Append(coordinate_queue, [x |-> current_x', y |-> current_y'])
           ELSE UNCHANGED <<coordinate_queue, current_x, current_y>>
    /\ UNCHANGED <<mainVars, negVars, channel, videoTrack, framesReceived, framesSeen,
                   workerPc, pollVars, ballVars, pacerVars, msgVars>>

\* (variant: the coordinate is read but left in the queue)
QueueGet_peek(q) == [item |-> Head(q), rest |-> q]

\* (variant: the newest waiting coordinate is taken)
QueueGet_newest(q) == [item |-> q[Len(q)], rest |-> SubSeq(q, 1, Len(q) - 1)]

\* coordinate_queue.get(): the oldest waiting coordinate.
QueueGet(q) == [item |-> Head(q), rest |-> Tail(q)]

\* (variant: readyState is not tested)
SendGuard_any_state(ch, q) == ch # "none" /\ q # <<>>

\* self.channel and self.channel.readyState == "open"
\*     and not self.coordinate_queue.empty()
SendGuard(ch, q) == ch # "none" /\ ch = "open" /\ q # <<>>

\* channel.send raised inside the while loop: nothing catches it, the task ends.
AfterSendFailure == "failed"

\* Client.send_coordinates_to_server, one iteration of its loop; channel.send
\* either accepts the message or raises.
send_coordinates_to_server ==
    /\ role = "client" /\ LoopRunning
    /\ pollPc = "running"
    /\ IF SendGuard(channel, coordinate_queue)
         THEN LET got == QueueGet(coordinate_queue) IN
              /\ coordinate_queue' = got.rest
              /\ sendCalls' = sendCalls + 1
              /\ lastSend' = [sent |-> TRUE, waiting |-> coordinate_queue,
                              coord |-> got.item]
              /\ \E accepted \in BOOLEAN :
                   IF accepted
                     THEN /\ outbox' = Append(outbox, Str(got.item))
                          /\ pollPc' = "running"
                     ELSE /\ outbox' = outbox
                          /\ pollPc' = AfterSendFailure
         ELSE UNCHANGED <<coordinate_queue, sendCalls, lastSend, outbox, pollPc>>
    /\ lastPoll' = [polled |-> TRUE, channel |-> channel,
                    waiting |-> Len(coordinate_queue),
                    dequeued |-> Len(coordinate_queue) - Len(coordinate_queue'),
                    sends |-> sendCalls' - sendCalls]
    /\ UNCHANGED <<mainVars, negVars, channel, frameVars, current_x, current_y,
                   workerPc, ballVars, pacerVars, msgVars>>

----------------------------------------------------------------------------
\* ast.literal_eval on a token sequence: an integer literal, or a dict display
\* { key : int , key : int ... } with string keys; anything else raises.
IsEntryAt(toks, i) ==
    /\ toks[4 * i - 2].kind \in {"'x'", "'y'"}
    /\ toks[4 * i - 1].kind = ":"
    /\ toks[4 * i].kind = "int"
    /\ toks[4 * i + 1].kind = (IF 4 * i + 1 = Len(toks) THEN "}" ELSE ",")

IsDictDisplay(toks) ==
    /\ Len(toks) >= 2
    /\ toks[1].kind = "{"
    /\ \/ Len(toks) = 2 /\ toks[2].kind = "}"
       \/ /\ Len(toks) % 4 = 1
          /\ \A i \in 1..((Len(toks) - 1) \div 4) : IsEntryAt(toks, i)

\* The value of key k in a dict display: that of its last entry.
EntriesOf(toks, k) ==
    { i \in 1..((Len(toks) - 1) \div 4) : Len(toks) > 2 /\ toks[4 * i - 2].kind = k }

ValueOf(toks, k) ==
    LET last == CHOOSE i \in EntriesOf(toks, k) : \A j \in EntriesOf(toks, k) : j <= i
    IN  IntOf(toks[4 * last].val)

LiteralEval(toks) ==
    IF Len(toks) = 1 /\ toks[1].kind = "int"
      THEN [ok |-> TRUE, isDict |-> FALSE, hasX |-> FALSE, hasY |-> FALSE,
            x |-> 0, y |-> 0]
    ELSE IF IsDictDisplay(toks)
      THEN [ok |-> TRUE, isDict |-> TRUE,
            hasX |-> EntriesOf(toks, "'x'") # {},
            hasY |-> EntriesOf(toks, "'y'") # {},
            x |-> IF EntriesOf(toks, "'x'") # {} THEN ValueOf(toks, "'x'") ELSE 0,
            y |-> IF EntriesOf(toks, "'y'") # {} THEN ValueOf(toks, "'y'") ELSE 0]
    ELSE [ok |-> FALSE, isDict |-> FALSE, hasX |-> FALSE, hasY |-> FALSE,
          x |-> 0, y |-> 0]

\* (variant: actual_x is read for both axes)
compute_error2_actual_x_twice(px, py, c) ==
    (c.x - px) * (c.x - px) + (c.y - px) * (c.y - px)

\* Server.compute_error, squared: (x - actual_x) ** 2 + (y - actual_y) ** 2.
compute_error2(px, py, c) == (c.x - px) * (c.x - px) + (c.y - py) * (c.y - py)

\* The messages the data channel delivers: the text a client sends, texts that
\* are no (x, y) record, and the same bytes sent as a binary message.
TextBodies ==
    { Str(c) : c \in Coords }
      \cup { << Tok("{"), Tok("'x'") >>,
             << IntTok(MaxCoord) >>,
             << Tok("{"), Tok("'x'"), Tok(":"), IntTok(MaxCoord), Tok("}") >> }

InboundMessages ==
    { [type |-> "str", body |-> b] : b \in TextBodies }
      \cup { [type |-> "bytes", body |-> Str(c)] : c \in Coords }

\* What on_message does with a message: "metric" (parsed, compute_error
\* returned), "raised" (literal_eval or compute_error raised out of the
\* handler) or "ignored" (the isinstance test failed: no statement runs).
OnMessageOutcome(message) ==
    IF message.type = "str"
      THEN LET v == LiteralEval(message.body) IN
             IF v.ok /\ v.isDict /\ v.hasX /\ v.hasY THEN "metric" ELSE "raised"
      ELSE "ignored"

\* The body of on_message, run on one message.
HandleMessage(message) ==
    /\ msgOutcome' = OnMessageOutcome(message)
    /\ distance2' = IF msgOutcome' = "metric"
                      THEN compute_error2(position_x, position_y,
                                          LiteralEval(message.body))
                      ELSE distance2
    /\ lastReport' = IF msgOutcome' = "metric"
                       THEN [x |-> LiteralEval(message.body).x,
                             y |-> LiteralEval(message.body).y]
                       ELSE lastReport
    /\ msgsHandled' = msgsHandled + 1

\* Server.run_offer.on_message
on_message ==
    /\ role = "server" /\ LoopRunning
    /\ "message" \in handlers
    /\ channel = "open"
    /\ msgsHandled < MaxMessages
    /\ \E message \in InboundMessages : HandleMessage(message)
    /\ UNCHANGED <<mainVars, negVars, channel, clientVars, ballVars, pacerVars>>

----------------------------------------------------------------------------
InitClient == role = "client" /\ InitEndpoint /\ InitBall /\ InitPacer

InitServer == role = "server" /\ InitEndpoint /\ InitBall /\ InitPacer

\* __main__ and the session's channel, the same at both endpoints.
NextMain ==
    \/ Interrupt
    \/ ClosePeerConnection
    \/ CloseSignaling
    \/ ChannelOpens
    \/ ChannelCloses

\* Session negotiation at either endpoint, under every sequence of inbound
\* signaling objects.
NextNegotiation ==
    \/ NextMain
    \/ run_answer
    \/ run_offer
    \/ Client_consume_signaling
    \/ Server_consume_signaling
    \/ on_datachannel

Spec == (InitClient \/ InitServer) /\ [][NextNegotiation]_vars

\* The client in a session with this repository's server, which sends one
\* offer and no further description: frames, detection and reporting.
Client_consume_from_server ==
    /\ role = "client"
    /\ \E obj \in {"offer", "candidate", "bye"} :
         /\ obj = "offer" => remoteApplied = 0
         /\ consume_signaling(obj)

NextClient ==
    \/ NextMain
    \/ run_answer
    \/ Client_consume_from_server
    \/ on_datachannel
    \/ VideoReceiveTrack_recv
    \/ ImageParser_run
    \/ send_coordinates_to_server

SpecClient == InitClient /\ [][NextClient]_vars

\* The polling task is scheduled on the event loop by loop.create_task and
\* re-armed every 0.01 s; while the loop runs, a task that is ready runs.
SpecClientFair == SpecClient /\ WF_vars(send_coordinates_to_server)

\* The server in a session with this repository's client, which sends one
\* answer and no further description: inbound coordinate reports.
Server_consume_from_client ==
    /\ role = "server"
    /\ \E obj \in {"answer", "candidate", "bye"} :
         /\ obj = "answer" => remoteApplied = 0
         /\ consume_signaling(obj)

NextServer ==
    \/ NextMain
    \/ run_offer
    \/ Server_consume_from_client
    \/ on_message

SpecServer == InitServer /\ [][NextServer]_vars

----------------------------------------------------------------------------
\* The simulator from arbitrary starting states inside the rectangle: on each
\* axis at the centre or within MaxStartOffset of a wall, either velocity sign.
StartsOn(bound) ==
    { bound \div 2 }
      \cup { BALL_RADIUS + k : k \in 0..MaxStartOffset }
      \cup { bound - BALL_RADIUS - k : k \in 0..MaxStartOffset }

InitSim ==
    /\ position_x \in StartsOn(screen_size[1])
    /\ position_y \in StartsOn(screen_size[2])
    /\ speed_x \in {-1, 1}
    /\ speed_y \in {-1, 1}
    /\ ticks = 0
    /\ InitPacer
    /\ InitIdle

NextSim == SimTick

SpecSim == InitSim /\ [][NextSim]_vars

\* The simulator from the program's own starting state, over a long run.
RunTick ==
    /\ ticks < MaxRunTicks
    /\ get_next_image
    /\ UNCHANGED <<pacerVars, endpointVars>>

NextRun == RunTick

SpecRun == InitTrack /\ [][NextRun]_vars

\* The offerer with its track: the media session calls recv once the remote
\* description is set, frame after frame, while signaling and data-channel
\* messages arrive.  The first recv runs through without suspending
\* (next_timestamp takes its else branch); every later one suspends in
\* asyncio.sleep between its tick and its return, and closing the connection
\* cancels a recv suspended there.  now is advanced, at the suspension, to the
\* instant at which the sleep ends.
SessionSending ==
    /\ role = "server" /\ LoopRunning /\ ~pcClosed
    /\ negPc # "connect"
    /\ remoteApplied >= 1

\* The session calls recv as soon as the previous frame is sent, or late.
MediaDelays == { 0, MaxDelaySteps * (TimestampIncrement \div 2) }

recv_first ==
    /\ SessionSending
    /\ ~has_timestamp
    /\ calls < MaxMediaFrames
    /\ get_next_image
    /\ next_timestamp(0)
    /\ pts' = Append(pts, timestamp')
    /\ UNCHANGED endpointVars

recv_suspends ==
    /\ SessionSending
    /\ has_timestamp
    /\ calls = Len(pts)
    /\ calls < MaxMediaFrames
    /\ get_next_image
    /\ \E d \in MediaDelays : next_timestamp(d)
    /\ UNCHANGED <<pts, endpointVars>>

\* (variant: the ball is moved again when the frame is returned)
recv_returns_and_ticks ==
    /\ SessionSending
    /\ calls > Len(pts)
    /\ pts' = Append(pts, timestamp)
    /\ get_next_image
    /\ UNCHANGED <<has_timestamp, timestamp, start, now, wait, slept,
                   calls, returns, endpointVars>>

recv_returns ==
    /\ SessionSending
    /\ calls > Len(pts)
    /\ pts' = Append(pts, timestamp)
    /\ UNCHANGED <<ballVars, has_timestamp, timestamp, start, now, wait, slept,
                   calls, returns, endpointVars>>

NextMedia ==
    \/ NextMain
    \/ run_offer
    \/ Server_consume_from_client
    \/ on_message
    \/ recv_first
    \/ recv_suspends
    \/ recv_returns

SpecMedia == InitServer /\ [][NextMedia]_vars

\* compute_error called on a Server and a track, as test_Server_compute_error
\* calls it: with (0, 0), with (10, 20), and with reports on and next to the
\* ball's position.
Reports(px, py) ==
    { [x |-> 0, y |-> 0], [x |-> 10, y |-> 20], [x |-> px, y |-> py],
      [x |-> py, y |-> px], [x |-> px + 1, y |-> py], [x |-> px, y |-> py - 1] }

compute_error ==
    /\ \E client_coordinate \in Reports(position_x, position_y) :
         /\ lastReport' = client_coordinate
         /\ distance2' = compute_error2(position_x, position_y, client_coordinate)
    /\ UNCHANGED <<ballVars, pacerVars, mainVars, negVars, channel, clientVars,
                   msgsHandled, msgOutcome>>

NextError ==
    \/ SimTick
    \/ compute_error

SpecError == InitSim /\ [][NextError]_vars

\* One coordinate on its way from the detection worker to compute_error: the
\* worker detects a centre and queues the record, the polling loop sends
\* str(coordinates), and on_message evaluates the text it is handed.
RECURSIVE Pow10(_)
Pow10(k) == IF k = 0 THEN 1 ELSE 10 * Pow10(k - 1)

\* Centres the worker can report: np.uint16 values, among them every change
\* in the number of digits up to MaxDigits and a five-digit value.
DetectableValues ==
    { 0, SCREEN_WIDTH \div 2, SCREEN_HEIGHT \div 2, UINT16 \div 2 - 1 }
      \cup { Pow10(k) - 1 : k \in 1..MaxDigits }
      \cup { Pow10(k) : k \in 1..MaxDigits }

Detects ==
    /\ sendCalls = 0 /\ coordinate_queue = <<>>
    /\ \E x \in DetectableValues, y \in DetectableValues :
         LET center == detect_center([ball |-> TRUE, x |-> x, y |-> y]) IN
           /\ current_x' = center.x
           /\ current_y' = center.y
           /\ coordinate_queue' =
                  Append(coordinate_queue, [x |-> current_x', y |-> current_y'])
    /\ UNCHANGED <<ballVars, pacerVars, mainVars, negVars, channel, frameVars,
                   workerPc, pollVars, msgVars>>

Sends ==
    /\ coordinate_queue # <<>>
    /\ LET got == QueueGet(coordinate_queue) IN
         /\ coordinate_queue' = got.rest
         /\ outbox' = Append(outbox, Str(got.item))
    /\ sendCalls' = sendCalls + 1
    /\ UNCHANGED <<ballVars, pacerVars, mainVars, negVars, channel, frameVars,
                   current_x, current_y, workerPc, pollPc, lastSend, lastPoll,
                   msgVars>>

Delivers ==
    /\ msgsHandled < Len(outbox)
    /\ HandleMessage([type |-> "str", body |-> outbox[msgsHandled + 1]])
    /\ UNCHANGED <<ballVars, pacerVars, mainVars, negVars, channel, clientVars>>

NextRoundTrip ==
    \/ Detects
    \/ Sends
    \/ Delivers

SpecRoundTrip == InitTrack /\ [][NextRoundTrip]_vars

\* The track as the media session drives it: recv after recv.
NextTrack == recv

SpecTrack == InitTrack /\ [][NextTrack]_vars

----------------------------------------------------------------------------
\* Radius-respecting containment of the ball in the rectangle.
Contained ==
    /\ BALL_RADIUS <= position_x /\ position_x <= screen_size[1] - BALL_RADIUS
    /\ BALL_RADIUS <= position_y /\ position_y <= screen_size[2] - BALL_RADIUS

\* C1 (as stated): from every starting position with radius <= position <=
\* boundary - radius on each axis and either velocity sign per axis, the position
\* after every tick satisfies radius <= position <= boundary - radius.
C1_ContainedFromAnyStart == ticks >= 1 => Contained

\* An axis sits exactly on a wall limit with its velocity pointing at that wall.
HeadsIntoWall(p, v, bound) ==
    \/ p = BALL_RADIUS /\ v = -1
    \/ p = bound - BALL_RADIUS /\ v = 1

InwardAndContained ==
    /\ Contained
    /\ ~HeadsIntoWall(position_x, speed_x, screen_size[1])
    /\ ~HeadsIntoWall(position_y, speed_y, screen_size[2])

\* C1 (amended): from every state with radius <= position <= boundary - radius
\* on each axis in which no axis sits exactly on a limit with its velocity
\* pointing at that wall, a tick leads to a state of the same kind; so from
\* every such starting state the position is contained after every tick.
C1_ContainedFromInwardStart ==
    [][InwardAndContained => InwardAndContained']_vars

\* C1 witness: the ball has just been reflected at the far x wall.
C1_Witness ==
    /\ ticks >= 1
    /\ position_x = screen_size[1] - BALL_RADIUS
    /\ speed_x = -1

\* C4 (as stated): every sleep the pacer requests has a duration >= 0.
C4_RequestedSleepNonNegative == wait >= 0

\* C4 (amended): the duration passed to sleep is start + timestamp - now and may
\* be negative; the caller is then not suspended at all (slept = 0), and otherwise
\* it is suspended for exactly the requested time, so the suspension is never
\* negative and no call returns before the ideal instant start + timestamp.
C4_SuspensionNonNegative ==
    has_timestamp =>
        /\ slept >= 0
        /\ (wait <= 0 => slept = 0)
        /\ (wait > 0 => slept = wait /\ now = start + timestamp)
        /\ now >= start + timestamp

\* C4 witness: a call that found its ideal instant already past.
C4_Witness == calls >= 2 /\ wait < 0 /\ slept = 0 /\ now > start + timestamp

\* C5: the n-th call (n = 0, 1, ...) returns n * 3000; the pts of the frames
\* produced so far are strictly increasing, so none is used twice.
C5_Timestamps ==
    /\ Len(pts) = calls
    /\ \A i \in 1..Len(pts) : pts[i] = (i - 1) * 3000
    /\ \A i, j \in 1..Len(pts) : i < j => pts[i] < pts[j]

\* C5 witness: the third frame carries 6000.
C5_Witness == Len(pts) = 3 /\ pts[3] = 6000

\* Number of descriptions (offers or answers) among the received objects.
DescriptionsReceived ==
    Cardinality({ i \in 1..Len(received) : received[i] \in {"offer", "answer"} })

\* C2: at most one local and at most one remote descriptor are ever applied at
\* an endpoint, and a further descriptor of a direction already applied is
\* reported as a ProtocolViolation.
C2_OneDescriptorPerDirection ==
    /\ remoteApplied <= 1
    /\ localApplied <= 1
    /\ (DescriptionsReceived >= 2 => violations >= 1)

\* C3: once __main__ has run to its end (after BYE or after an interrupt), the
\* negotiation loop, the polling loop and the detection worker have all stopped
\* and the media session and the signaling transport are closed.
C3_TerminationUnwindsAll ==
    mainPc = "exited" =>
        /\ pcClosed /\ sigClosed
        /\ ~ENABLED Client_consume_from_server
        /\ ~ENABLED send_coordinates_to_server
        /\ workerPc = "stopped"

\* C6 (as stated): the coordinate a send carries is the most recently produced
\* of the coordinates waiting in the outbound queue at that moment.
C6_SendsNewestWaiting ==
    lastSend.sent => lastSend.coord = lastSend.waiting[Len(lastSend.waiting)]

\* C6 (amended): the coordinate a send carries is the oldest of the coordinates
\* waiting in the outbound queue at that moment (first in, first out), and the
\* newer ones stay queued behind it.
C6_SendsOldestWaiting ==
    lastSend.sent =>
        /\ lastSend.coord = lastSend.waiting[1]
        /\ lastSend.waiting # <<>>

\* C6 witness: a send made while two different coordinates were waiting.
C6_Witness ==
    /\ lastSend.sent
    /\ Len(lastSend.waiting) >= 2
    /\ lastSend.waiting[1] # lastSend.waiting[2]

\* C7: a send that raises does not stop the polling loop.
C7_PollingSurvivesSendFailure == sendCalls > Len(outbox) => pollPc = "running"

\* C8: every message delivered to on_message is either turned into an error
\* metric or reported as an error, whatever its type.
C8_MetricOrReported == msgsHandled > 0 => msgOutcome \in {"metric", "raised"}

\* C9: a polling iteration sends only with a captured, open channel and a
\* non-empty outbound queue; it then dequeues exactly one coordinate and makes
\* exactly one send; otherwise it dequeues nothing and sends nothing.  Nothing
\* but such an iteration takes a coordinate off the queue or sends.
C9_IterationGuarded ==
    lastPoll.polled =>
        IF lastPoll.channel = "open" /\ lastPoll.waiting > 0
          THEN lastPoll.dequeued = 1 /\ lastPoll.sends = 1
          ELSE lastPoll.dequeued = 0 /\ lastPoll.sends = 0

C9_OnlyGuardedSends ==
    (Len(coordinate_queue') < Len(coordinate_queue) \/ sendCalls' # sendCalls) =>
        /\ channel = "open" /\ coordinate_queue # <<>>
        /\ Len(coordinate_queue') = Len(coordinate_queue) - 1
        /\ sendCalls' = sendCalls + 1

C9_SendGuard == []C9_IterationGuarded /\ [][C9_OnlyGuardedSends]_vars

\* C9 witness: after a send, the channel has closed and an iteration has left a
\* waiting coordinate in the queue.
C9_Witness ==
    /\ sendCalls >= 1
    /\ lastPoll.polled /\ lastPoll.channel = "closed" /\ lastPoll.waiting > 0
    /\ lastPoll.sends = 0
    /\ coordinate_queue # <<>>

\* C10: the negotiation loop has ended exactly when BYE has been received; BYE
\* is the last object the loop receives, and after it the loop applies and
\* sends nothing more.
C10_EndedIffBye ==
    /\ (negPc = "ended") = (\E i \in 1..Len(received) : received[i] = "bye")
    /\ \A i \in 1..Len(received) : received[i] = "bye" => i = Len(received)

C10_NothingAfterBye ==
    negPc = "ended" =>
        UNCHANGED <<negPc, received, remoteApplied, localApplied,
                    candidatesApplied, descsSent>>

C10_EndsOnlyOnBye == []C10_EndedIffBye /\ [][C10_NothingAfterBye]_vars

\* C10 witness: the loop went through a description and a candidate and ended
\* on BYE.
C10_Witness ==
    /\ negPc = "ended"
    /\ received = <<"offer", "candidate", "bye">>

\* C11: for every frame the worker takes off the image queue it puts exactly
\* one coordinate (the detected centre) on the outbound queue if the image shows
\* a circle and nothing if it shows none; nothing else puts a coordinate there,
\* and after a miss the worker is still running, ready for the next frame.
C11_WorkerStep ==
    Len(image_queue') < Len(image_queue) =>
        /\ image_queue' = Tail(image_queue)
        /\ workerPc' = "running"
        /\ IF Head(image_queue).ball
             THEN coordinate_queue' =
                    Append(coordinate_queue,
                           [x |-> Head(image_queue).x, y |-> Head(image_queue).y])
             ELSE coordinate_queue' = coordinate_queue

C11_OnlyWorkerProduces ==
    Len(coordinate_queue') > Len(coordinate_queue) =>
        /\ Len(image_queue') < Len(image_queue)
        /\ Head(image_queue).ball

C11_DetectionOutcome ==
    [][C11_WorkerStep /\ C11_OnlyWorkerProduces]_vars

\* C11 witness: a blank frame and then a frame with a ball have been taken; only
\* the second produced a coordinate.
C11_Witness ==
    /\ Len(framesSeen) = 2
    /\ ~framesSeen[1].ball /\ framesSeen[2].ball
    /\ image_queue = <<>>
    /\ coordinate_queue = << [x |-> framesSeen[2].x, y |-> framesSeen[2].y] >>

\* C12: in every tick each axis moves by its speed, and its speed is inverted
\* exactly when, after the move, position + 20 reaches the far boundary (640 for
\* x, 480 for y) or position - 20 reaches 0; the two axes are decided
\* independently.  From the program's start the ball first has
\* position_x + 20 >= 640 at tick 300, and speed_x is -1 from then on into the
\* next tick.
C12_TickRule ==
    ticks' = ticks + 1 =>
        /\ position_x' = position_x + speed_x
        /\ position_y' = position_y + speed_y
        /\ speed_x' = IF position_x' + 20 >= 640 \/ position_x' - 20 <= 0
                        THEN 0 - speed_x ELSE speed_x
        /\ speed_y' = IF position_y' + 20 >= 480 \/ position_y' - 20 <= 0
                        THEN 0 - speed_y ELSE speed_y

C12_FirstContact ==
    /\ ticks < 300 => position_x + 20 < 640 /\ speed_x = 1
    /\ ticks = 300 => position_x + 20 >= 640 /\ speed_x = -1
    /\ ticks = 301 => position_x = 619 /\ speed_x = -1

C12_ReflectionRule == []C12_FirstContact /\ [][C12_TickRule]_vars

\* C12 witness: the tick after the first contact with the far x wall.
C12_Witness == ticks = 301 /\ position_x = 619 /\ speed_x = -1

\* C13: a received candidate is applied to the session exactly once, at once,
\* whatever descriptors have or have not been applied; the step applies and
\* sends no descriptor, reports no error and does not end the loop; and nothing
\* but a received candidate is applied as one.
C13_CandidateStep ==
    (Len(received') = Len(received) + 1 /\ received'[Len(received')] = "candidate") =>
        /\ candidatesApplied' = candidatesApplied + 1
        /\ negPc' = "receive"
        /\ UNCHANGED <<remoteApplied, localApplied, descsSent, violations>>

C13_AppliedAreReceived ==
    candidatesApplied =
        Cardinality({ i \in 1..Len(received) : received[i] = "candidate" })

C13_CandidateApplied == []C13_AppliedAreReceived /\ [][C13_CandidateStep]_vars

\* C13 witness: the answerer has applied a candidate before any descriptor.
C13_Witness ==
    /\ role = "client"
    /\ received = <<"candidate">>
    /\ candidatesApplied = 1
    /\ remoteApplied = 0 /\ localApplied = 0
    /\ negPc = "receive"

\* C14: compute_error returns the Euclidean distance between the report and
\* the ball's position at the call (stated on its square): it is non-negative,
\* zero exactly when the report is the position, the position's distance from
\* the origin for the report (0, 0), and the same with the two points swapped.
C14_ErrorStep ==
    (lastReport' # lastReport \/ distance2' # distance2) =>
        /\ distance2' = (lastReport'.x - position_x) * (lastReport'.x - position_x)
                          + (lastReport'.y - position_y) * (lastReport'.y - position_y)
        /\ distance2' >= 0
        /\ distance2' = 0 <=> (lastReport'.x = position_x /\ lastReport'.y = position_y)
        /\ lastReport' = [x |-> 0, y |-> 0] =>
               distance2' = position_x * position_x + position_y * position_y
        /\ distance2' = (position_x - lastReport'.x) * (position_x - lastReport'.x)
                          + (position_y - lastReport'.y) * (position_y - lastReport'.y)

C14_EuclideanDistance == [][C14_ErrorStep]_vars

\* C14 witness: after the ball has moved, a report equal to its position has
\* been measured at distance 0.
C14_Witness ==
    /\ ticks >= 1
    /\ lastReport = [x |-> position_x, y |-> position_y]
    /\ distance2 = 0

\* C15: the text the client sends for a detected centre, str of the record
\* {'x': x, 'y': y}, is evaluated by the server's handler into a record with
\* the same x and the same y.
C15_RoundTrip ==
    msgsHandled >= 1 =>
        /\ msgOutcome = "metric"
        /\ lastReport = [x |-> current_x, y |-> current_y]

\* C15 witness: a five-digit value and a value ending in a zero digit have made
\* the trip.
C15_Witness ==
    /\ msgsHandled = 1
    /\ outbox = << Str([x |-> UINT16 \div 2 - 1, y |-> 10]) >>
    /\ lastReport = [x |-> UINT16 \div 2 - 1, y |-> 10]

\* C16: the order of the handshake calls.  Offerer: data channel, track and
\* message handler before createOffer; the offer applied locally before it is
\* sent; the offer sent before the first receive.  Answerer: both callbacks
\* registered before the first receive; within the iteration that received an
\* offer, setRemoteDescription before createAnswer before setLocalDescription
\* before send; and no answer is sent in an iteration that received anything
\* but an offer.
Precedes(e, i) == \E j \in 1..(i - 1) : events[j] = e

\* The position of the last receive before position i (0: none).
IterationStart(i) ==
    LET R == { j \in 1..(i - 1) : events[j].call = "receive" }
    IN  IF R = {} THEN 0 ELSE CHOOSE j \in R : \A k \in R : k <= j

Within(e, i) == \E j \in (IterationStart(i) + 1)..(i - 1) : events[j] = e

C16_Offerer ==
    role = "server" =>
      \A i \in 1..Len(events) :
        /\ events[i] = Ev("createOffer", "offer") =>
             /\ Precedes(Ev("createDataChannel", "coordinates"), i)
             /\ Precedes(Ev("addTrack", "balltrack"), i)
             /\ Precedes(Ev("on", "message"), i)
        /\ events[i] = Ev("setLocalDescription", "offer") =>
             Precedes(Ev("createOffer", "offer"), i)
        /\ events[i] = Ev("send", "offer") =>
             Precedes(Ev("setLocalDescription", "offer"), i)
        /\ events[i].call = "receive" => Precedes(Ev("send", "offer"), i)

C16_Answerer ==
    role = "client" =>
      \A i \in 1..Len(events) :
        /\ events[i].call = "receive" =>
             /\ Precedes(Ev("on", "track"), i)
             /\ Precedes(Ev("on", "datachannel"), i)
        /\ events[i] = Ev("createAnswer", "answer") =>
             Within(Ev("setRemoteDescription", "offer"), i)
        /\ events[i] = Ev("setLocalDescription", "answer") =>
             Within(Ev("createAnswer", "answer"), i)
        /\ events[i].call = "send" =>
             /\ events[i].arg = "answer"
             /\ Within(Ev("setLocalDescription", "answer"), i)
             /\ IterationStart(i) > 0
             /\ events[IterationStart(i)] = Ev("receive", "offer")

\* The descriptors counted as sent and applied are those of the logged calls.
C16_LogAgrees ==
    /\ Len(descsSent) = Cardinality({ i \in 1..Len(events) : events[i].call = "send" })
    /\ localApplied =
         Cardinality({ i \in 1..Len(events) : events[i].call = "setLocalDescription" })
    /\ remoteApplied =
         Cardinality({ i \in 1..Len(events) : events[i].call = "setRemoteDescription" })

C16_HandshakeOrder == C16_Offerer /\ C16_Answerer /\ C16_LogAgrees

\* C16 witness: the answerer has received an answer, which it did not answer,
\* and then an offer, which it did.
C16_Witness ==
    /\ role = "client"
    /\ received = <<"answer", "offer">>
    /\ descsSent = <<"answer">>
    /\ events[Len(events)] = Ev("send", "answer")

\* C17: the coordinates sent over the data channel are, in order, the first
\* positive detection results of the frames in the order they were received:
\* none is sent twice, none out of order, none skipped for a later one; the
\* coordinates still queued are the detections that follow the ones taken.
RECURSIVE Detections(_)
Detections(frames) ==
    IF frames = <<>> THEN <<>>
    ELSE LET center == detect_center(Head(frames)) IN
           (IF center.found THEN << [x |-> center.x, y |-> center.y] >> ELSE <<>>)
             \o Detections(Tail(frames))

C17_PipelineOrder ==
    LET D == Detections(framesSeen) IN
      /\ Len(outbox) <= sendCalls
      /\ sendCalls + Len(coordinate_queue) <= Len(D)
      /\ \A i \in 1..Len(outbox) : outbox[i] = Str(D[i])
      /\ lastSend.sent => lastSend.coord = D[sendCalls]
      /\ \A j \in 1..Len(coordinate_queue) : coordinate_queue[j] = D[sendCalls + j]

\* C17 witness: two frames showing the ball at different places have been
\* received, detected and reported, in that order.
C17_Witness ==
    /\ Len(framesSeen) = 2
    /\ framesSeen[1].ball /\ framesSeen[2].ball
    /\ framesSeen[1] # framesSeen[2]
    /\ Len(outbox) = 2
    /\ outbox[1] = Str([x |-> framesSeen[1].x, y |-> framesSeen[1].y])
    /\ outbox[2] = Str([x |-> framesSeen[2].x, y |-> framesSeen[2].y])

\* C18: the frame with timestamp n * 3000 is returned at its target instant,
\* the first call's instant plus n frame periods, or at the instant of the call
\* if that is later; never before the target.  The target is fixed by the
\* first call's instant and n alone: start never changes after the first call,
\* and a frame after a late one is still returned at its own target.
Target(n) == returns[1].returned + n * TimestampIncrement

C18_Targets ==
    /\ Len(returns) = calls
    /\ calls >= 1 => /\ start = returns[1].called
                     /\ returns[1].returned = returns[1].called
    /\ \A i \in 2..Len(returns) :
         /\ pts[i] = (i - 1) * 3000
         /\ returns[i].returned >= Target(i - 1)
         /\ returns[i].returned =
              (IF returns[i].called > Target(i - 1)
                 THEN returns[i].called ELSE Target(i - 1))

C18_StartFixed == has_timestamp => start' = start

C18_DriftFree == []C18_Targets /\ [][C18_StartFixed]_vars

\* C18 witness: the second frame was returned late, and the third, called
\* before its target, was returned exactly at it.
C18_Witness ==
    /\ Len(returns) >= 3
    /\ returns[2].returned > Target(1)
    /\ returns[3].called < Target(2)
    /\ returns[3].returned = Target(2)

\* C19: position and velocity change only in get_next_image, once per recv
\* call: a step that changes them is one tick of one recv call and handles no
\* message; a step that handles a message or returns a frame leaves them
\* alone; and when the k-th frame is returned the ball has made k ticks (one
\* more than the frames returned only while a recv is between its tick and
\* its return).
C19_TicksPerFrame ==
    /\ ticks = calls
    /\ Len(pts) <= ticks /\ ticks <= Len(pts) + 1

C19_OnlyTickMoves ==
    /\ ballVars' # ballVars =>
         /\ ticks' = ticks + 1
         /\ calls' = calls + 1
         /\ position_x' = position_x + speed_x
         /\ position_y' = position_y + speed_y
         /\ speed_x' \in {speed_x, 0 - speed_x}
         /\ speed_y' \in {speed_y, 0 - speed_y}
         /\ UNCHANGED msgVars
    /\ msgsHandled' # msgsHandled => UNCHANGED ballVars
    /\ Len(pts') > Len(pts) =>
         /\ ticks' = Len(pts')
         /\ has_timestamp => UNCHANGED ballVars

C19_BallOwnership == []C19_TicksPerFrame /\ [][C19_OnlyTickMoves]_vars

\* C19 witness: two frames have been returned, the ball has made two ticks,
\* and a report has been measured against the position after the second.
C19_Witness ==
    /\ Len(pts) = 2 /\ ticks = 2
    /\ position_x = SCREEN_HEIGHT \div 2 + 2
    /\ msgsHandled >= 1 /\ msgOutcome = "metric"
    /\ distance2 = compute_error2(position_x, position_y, lastReport)

\* C20: under fair scheduling of the polling task, while the session is not
\* terminated and the channel stays open, every coordinate waiting in the
\* outbound queue (the k-th put there, for every k) is eventually handed to
\* channel.send.
C20_QueuedIsSent ==
    \A k \in 1..MaxImages :
      (/\ mainPc = "run" /\ channel = "open"
       /\ sendCalls < k /\ k <= sendCalls + Len(coordinate_queue))
        ~> (sendCalls >= k \/ channel # "open" \/ mainPc # "run")

\* The same, but for the runs in which the polling task has died of a send
\* that raised (C7).
C20_QueuedIsSentUnlessPollingDied ==
    \A k \in 1..MaxImages :
      (/\ mainPc = "run" /\ channel = "open"
       /\ sendCalls < k /\ k <= sendCalls + Len(coordinate_queue))
        ~> (sendCalls >= k \/ channel # "open" \/ mainPc # "run" \/ pollPc = "failed")

====
